---- MODULE Spec2Model ----
(***************************************************************************)
(* Log aggregation by traceId (aggregate.lua, combine_logs) and the        *)
(* client / server pipeline that feeds it; retry.Do and the client's       *)
(* doRequestWithRetry; the Trace middleware with the Hello handler; the    *)
(* active-operations counter of MetricsService.  Each component has its    *)
(* own specification over the shared variables.                            *)
(*                                                                         *)
(* Lua values are modelled as tagged pairs <<type, payload>>.  A string's  *)
(* payload is the sequence of its pieces, so that "contains the marker"    *)
(* and "joined by newline" are computed, not assumed.  A Lua table is a    *)
(* function whose DOMAIN is the set of fields that are not nil.            *)
(***************************************************************************)
EXTENDS Integers, Sequences, FiniteSets, TLC

VARIABLES
    buffer,     \* aggregate.lua: the global table of open entries, by traceId
    hist,       \* the records handed to combine_logs so far, in order
    rets,       \* what combine_logs returned for each of them
    eof,        \* the tailed stream has ended
    jobs,       \* worker pool: the jobs channel
    sent,       \* Pool.Run: jobs pushed so far
    closed,     \* Pool.Run: close(jobs) has run
    workers,    \* per worker: where it is in worker / retry.Do
    nextTrace,  \* trace.New(): IDs handed out so far
    inflight,   \* server: requests being handled, by <<job, attempt>>
    logFile,    \* server: the lines of app.log
    retry,      \* retry.Do: where the call is, its arguments and locals
    ctx,        \* retry.Do: ctx.Err() of the context handed to Do
    calls,      \* retry.Do: what fn returned on each call so far, in order
    request,    \* doRequestWithRetry: its locals and what each attempt met
    arrived,    \* server: requests accepted so far
    mu,                     \* MetricsService.mu: 0, or the goroutine holding it
    activeOperationsCount,  \* MetricsService.activeOperationsCount
    userActiveOperations,   \* MetricsService.userActiveOperations (the gauge)
    timers,     \* per goroutine: where it is in StartUserOperationTimer / stop
    producers,  \* per producer: where it is in combine_logs, and its locals
    collector,  \* metrics.Collector: its three atomic counters
    recording,  \* per request: where Trace is in recording its metrics
    getStats,   \* Collector.GetStats: where the call is, and its locals
    run,        \* Pool.Run with its workers: channel, WaitGroup, positions
    mongo       \* MongoDBMetricsCollector: stopCh, wg, collectLoop, Stop

aggVars == <<buffer, hist, rets, eof>>
poolVars == <<jobs, sent, closed, workers, nextTrace>>
serverVars == <<inflight, logFile>>
retryVars == <<retry, ctx, calls>>
metricsVars == <<mu, activeOperationsCount, userActiveOperations, timers>>
collectorVars == <<collector, recording, getStats>>
lifecycleVars == <<collectorVars, run, mongo>>
extraVars == <<retryVars, request, arrived, metricsVars, producers, lifecycleVars>>
nonRetryVars ==
    <<aggVars, poolVars, serverVars, request, arrived, metricsVars, producers,
      lifecycleVars>>
nonClientVars ==
    <<aggVars, poolVars, serverVars, arrived, metricsVars, producers,
      lifecycleVars>>
nonMetricsVars ==
    <<aggVars, poolVars, serverVars, retryVars, request, arrived, producers,
      lifecycleVars>>
nonProducerVars ==
    <<eof, poolVars, serverVars, retryVars, request, arrived, metricsVars,
      lifecycleVars>>
baseVars ==
    <<aggVars, poolVars, serverVars, retryVars, request, arrived, metricsVars,
      producers>>
vars == <<buffer, hist, rets, eof, jobs, sent, closed, workers, nextTrace,
          inflight, logFile, retry, ctx, calls, request,
          arrived, mu, activeOperationsCount, userActiveOperations, timers,
          producers, collector, recording, getStats, run, mongo>>

----------------------------------------------------------------------------
(* Bounds *)

MaxRecords == 3
MaxEvents == 2
Total == 1
Concurrency == 1
MaxRetries == 2
MaxRetriesArg == 3
MaxRequests == 2
MaxTimers == 2
MaxProducers == 2
MaxRecorded == 2
MaxTotal == 3
MaxConcurrency == 2
MaxTicks == 4

----------------------------------------------------------------------------
(* Lua values *)

Nil == <<"nil", 0>>
Str(s) == <<"string", s>>
Num(n) == <<"number", n>>
EmptyStr == Str(<<>>)

Truthy(v) == v # Nil /\ v # <<"boolean", FALSE>>

Get(t, k) == IF k \in DOMAIN t THEN t[k] ELSE Nil

EmptyTable == [k \in {} |-> Nil]

Put(t, k, v) == [x \in DOMAIN t \cup {k} |-> IF x = k THEN v ELSE t[x]]

Remove(t, k) == [x \in DOMAIN t \ {k} |-> t[x]]

MkTable(f) == [k \in {x \in DOMAIN f : f[x] # Nil} |-> f[k]]

----------------------------------------------------------------------------
(* combine_logs *)

Marker == "request completed"
Newline == "\n"

Contains(s, piece) == \E i \in 1..Len(s[2]) : s[2][i] = piece

IsKeyedNoEmptyCheck(traceId) == Truthy(traceId)

IsKeyed(traceId) == ~(~Truthy(traceId) \/ traceId = EmptyStr)

MessageOf(record) ==
    IF Truthy(Get(record, "message")) THEN record["message"] ELSE EmptyStr

is_completeExact(message) == message = Str(<<Marker>>)

is_completeNever(message) == FALSE

is_complete(message) == Contains(message, Marker)

NewEntry(traceId, record) ==
    [traceId |-> traceId,
     messages |-> <<>>,
     method |-> Get(record, "method"),
     path |-> Get(record, "path"),
     status |-> Get(record, "status"),
     latencyMs |-> Get(record, "latencyMs")]

InsertMessageFront(entry, message) ==
    [entry EXCEPT !.messages = <<message>> \o @]

InsertMessageTwice(entry, message) ==
    [entry EXCEPT !.messages = Append(Append(@, message), message)]

InsertMessage(entry, message) ==
    [entry EXCEPT !.messages = Append(@, message)]

UpdateFieldKeepFirst(entry, record, f) ==
    IF Truthy(Get(record, f)) /\ ~Truthy(entry[f])
    THEN [entry EXCEPT ![f] = record[f]] ELSE entry

UpdateField(entry, record, f) ==
    IF Truthy(Get(record, f)) THEN [entry EXCEPT ![f] = record[f]] ELSE entry

UpdateFields(entry, record) ==
    UpdateField(UpdateField(UpdateField(UpdateField(entry, record, "method"),
        record, "path"), record, "status"), record, "latencyMs")

RECURSIVE ConcatFrom(_, _, _)
ConcatFrom(list, sep, i) ==
    IF i > Len(list) THEN <<>>
    ELSE IF i = Len(list) THEN list[i][2]
    ELSE list[i][2] \o <<sep>> \o ConcatFrom(list, sep, i + 1)

table_concat(list, sep) == Str(ConcatFrom(list, sep, 1))

Combined(entry) ==
    MkTable([traceId |-> entry.traceId,
             message |-> table_concat(entry.messages, Newline),
             method |-> entry.method,
             path |-> entry.path,
             status |-> entry.status,
             latencyMs |-> entry.latencyMs])

FlushBufferKeep(buf, traceId) == buf

FlushBufferAll(buf, traceId) == EmptyTable

FlushBuffer(buf, traceId) == Remove(buf, traceId)

PassThrough(timestamp, record) == <<1, timestamp, record>>

SuppressAsPass(timestamp, record) == <<1, timestamp, record>>

SuppressKeep(timestamp, record) == <<0, timestamp, record>>

Suppress(timestamp, record) == <<-1, timestamp, record>>

combine_logs(buf, tag, timestamp, record) ==
    LET traceId == Get(record, "traceId") IN
    IF ~IsKeyed(traceId)
    THEN [buffer |-> buf, ret |-> PassThrough(timestamp, record)]
    ELSE LET message == MessageOf(record)
             complete == is_complete(message)
             b1 == IF traceId \in DOMAIN buf THEN buf
                   ELSE Put(buf, traceId, NewEntry(traceId, record))
             b2 == [b1 EXCEPT ![traceId] = InsertMessage(@, message)]
             b3 == [b2 EXCEPT ![traceId] = UpdateFields(@, record)]
         IN  IF complete
             THEN [buffer |-> FlushBuffer(b3, traceId),
                   ret |-> PassThrough(timestamp, Combined(b3[traceId]))]
             ELSE [buffer |-> b3, ret |-> Suppress(timestamp, record)]

----------------------------------------------------------------------------
(* Input records *)

HandlerFinished == Str(<<"handler finished">>)
RequestCompleted == Str(<<Marker>>)
Embedded == Str(<<"GET /hello ", Marker>>)
Startup == Str(<<"server starting">>)

KeyAbc == Str(<<"abc">>)
KeyXyz == Str(<<"xyz">>)
KeyNum == Num(7)

StringKeys == {KeyAbc, KeyXyz}

AuxNone == EmptyTable
AuxStatus == [status |-> Num(200)]
AuxLatency == [status |-> Num(200), latencyMs |-> Num(52)]
AuxGet ==
    [method |-> Str(<<"GET">>), path |-> Str(<<"/hello">>),
     status |-> Num(500), latencyMs |-> Num(0)]
AuxPost ==
    [method |-> Str(<<"POST">>), path |-> Str(<<"/health">>),
     userId |-> Str(<<"u-1">>)]

With(t, u) == [k \in DOMAIN t \cup DOMAIN u |-> IF k \in DOMAIN u THEN u[k] ELSE t[k]]

KeyedRecords ==
    { With(aux, [traceId |-> KeyAbc, message |-> m]) :
        m \in {HandlerFinished, RequestCompleted},
        aux \in {AuxNone, AuxStatus, AuxLatency, AuxGet} }
    \cup
    { With(AuxGet, [traceId |-> KeyXyz, message |-> HandlerFinished]),
      With(AuxPost, [traceId |-> KeyXyz, message |-> HandlerFinished]),
      With(AuxPost, [traceId |-> KeyXyz, message |-> RequestCompleted]) }

OddRecords ==
    { [traceId |-> KeyAbc],
      [traceId |-> KeyAbc, message |-> Embedded],
      [traceId |-> KeyNum, message |-> HandlerFinished],
      [traceId |-> KeyNum, message |-> RequestCompleted] }

UnkeyedRecords ==
    { [message |-> Startup],
      [message |-> RequestCompleted, status |-> Num(200)],
      [traceId |-> EmptyStr, message |-> Startup],
      [traceId |-> EmptyStr, message |-> RequestCompleted] }

Records == KeyedRecords \cup OddRecords \cup UnkeyedRecords

----------------------------------------------------------------------------
(* The filter applied to a stream of records *)

Workers == 1..Concurrency

IdleWorker ==
    [pc |-> "range", job |-> 0, traceID |-> Nil, attempt |-> 0,
     lastStatusCode |-> 0]

InitAggregator ==
    /\ buffer = EmptyTable
    /\ hist = <<>>
    /\ rets = <<>>
    /\ eof = FALSE

InitPipeline ==
    /\ jobs = <<>>
    /\ sent = 0
    /\ closed = FALSE
    /\ workers = [w \in Workers |-> IdleWorker]
    /\ nextTrace = 0
    /\ inflight = EmptyTable
    /\ logFile = <<>>

(* a nil error *)
NoError == "nil"

IdleDo ==
    [pc |-> "idle", maxRetries |-> 0, attempt |-> 0, err |-> NoError,
     delay |-> 0, ret |-> NoError]

InitRetry ==
    /\ retry = IdleDo
    /\ ctx = NoError
    /\ calls = <<>>

IdleRequest ==
    [pc |-> "idle", target |-> "valid", attempt |-> 0, lastStatusCode |-> 0,
     lastErr |-> NoError, lastLatency |-> 0, tries |-> <<>>, success |-> FALSE]

InitRequest == request = IdleRequest

InitServer == arrived = 0

Goroutines == 1..MaxTimers

IdleTimer == [pc |-> "idle", loaded |-> 0, observed |-> FALSE]

InitMetrics ==
    /\ mu = 0
    /\ activeOperationsCount = 0
    /\ userActiveOperations = 0
    /\ timers = [g \in Goroutines |-> IdleTimer]

Producers == 1..MaxProducers

IdleProducer ==
    [pc |-> "idle", timestamp |-> 0, record |-> EmptyTable, traceId |-> Nil,
     message |-> EmptyStr, is_complete |-> FALSE]

InitProducers == producers = [p \in Producers |-> IdleProducer]

Recorded == 1..MaxRecorded

IdleRecording == [pc |-> "idle", Status |-> 0, latency |-> 0]

IdleGetStats ==
    [pc |-> "idle", reqCount |-> 0, errCount |-> 0, totalLatency |-> 0,
     ret |-> <<>>]

InitCollector ==
    /\ collector = [requestCount |-> 0, errorCount |-> 0, totalLatencyMs |-> 0]
    /\ recording = [r \in Recorded |-> IdleRecording]
    /\ getStats = IdleGetStats

IdleRun ==
    [pc |-> "idle", Total |-> 0, Concurrency |-> 0, i |-> 0, jobs |-> <<>>,
     closed |-> FALSE, wg |-> 0, workers |-> <<>>, handled |-> <<>>,
     nextTrace |-> 0]

InitRun == run = IdleRun

InitMongo ==
    mongo = [loop |-> "none", stop |-> "idle", stopCh |-> "open", wg |-> 0,
             tick |-> FALSE, ticks |-> 0, collections |-> 0]

Init ==
    /\ InitAggregator /\ InitPipeline /\ InitRetry /\ InitRequest /\ InitServer
    /\ InitMetrics /\ InitProducers /\ InitCollector /\ InitRun /\ InitMongo

(* Fluent Bit hands the next tailed record to the Lua filter. *)
Filter ==
    /\ ~eof
    /\ Len(hist) < MaxRecords
    /\ \E record \in Records :
         LET r == combine_logs(buffer, "app", Len(hist) + 1, record) IN
         /\ buffer' = r.buffer
         /\ hist' = Append(hist, record)
         /\ rets' = Append(rets, r.ret)
    /\ UNCHANGED <<eof, poolVars, serverVars, extraVars>>

(* The tailed file gets no further line, or Fluent Bit stops: the filter   *)
(* is not called again and the script has no other entry point.            *)
EndOfInputFlushAll ==
    /\ ~eof
    /\ eof' = TRUE
    /\ buffer' = EmptyTable
    /\ UNCHANGED <<hist, rets, poolVars, serverVars, extraVars>>
EndOfInput ==
    /\ ~eof
    /\ eof' = TRUE
    /\ UNCHANGED <<buffer, hist, rets, poolVars, serverVars, extraVars>>

Next == Filter \/ EndOfInput

Spec == Init /\ [][Next]_vars

FairSpec == Spec /\ WF_vars(Filter)

----------------------------------------------------------------------------
(* Client worker pool, server and aggregator together *)

Latencies == {52}

New(n) == Str(<<"uuid-", ToString(n)>>)

(* Pool.Run: jobs <- i + 1 *)
RunSend ==
    /\ sent < Total
    /\ jobs' = Append(jobs, sent + 1)
    /\ sent' = sent + 1
    /\ UNCHANGED <<closed, workers, nextTrace, aggVars, serverVars, extraVars>>

(* Pool.Run: close(jobs) *)
RunClose ==
    /\ sent = Total
    /\ ~closed
    /\ closed' = TRUE
    /\ UNCHANGED <<jobs, sent, workers, nextTrace, aggVars, serverVars, extraVars>>

(* worker: for job := range jobs; traceID := trace.New(); retry.Do starts *)
WorkerTake(w) ==
    /\ workers[w].pc = "range"
    /\ jobs # <<>>
    /\ workers' = [workers EXCEPT ![w] =
         [pc |-> "fn", job |-> Head(jobs), traceID |-> New(nextTrace + 1),
          attempt |-> 0, lastStatusCode |-> 0]]
    /\ jobs' = Tail(jobs)
    /\ nextTrace' = nextTrace + 1
    /\ UNCHANGED <<sent, closed, aggVars, serverVars, extraVars>>

(* worker: the channel is closed and drained; wg.Done() *)
WorkerExit(w) ==
    /\ workers[w].pc = "range"
    /\ jobs = <<>>
    /\ closed
    /\ workers' = [workers EXCEPT ![w].pc = "exit"]
    /\ UNCHANGED <<jobs, sent, closed, nextTrace, aggVars, serverVars, extraVars>>

ReqId(w) == <<workers[w].job, workers[w].attempt>>

(* package trace: the context key, NewContext and FromContext *)
traceIDKey == "traceId"

NewContext(c, traceID) == Put(c, traceIDKey, traceID)

FromContextOtherKey(c) ==
    IF "trace_id" \in DOMAIN c /\ c["trace_id"][1] = "string"
    THEN c["trace_id"] ELSE EmptyStr
FromContext(c) ==
    IF traceIDKey \in DOMAIN c /\ c[traceIDKey][1] = "string"
    THEN c[traceIDKey] ELSE EmptyStr

(* encoding/json writes a string coerced to valid UTF-8: each byte that is *)
(* not part of a valid encoding becomes U+FFFD                             *)
InvalidBytes == {"0xFF", "0xFE"}

Marshal(v) ==
    Str([i \in 1..Len(v[2]) |->
           IF v[2][i] \in InvalidBytes THEN "U+FFFD" ELSE v[2][i]])

(* Trace, up to next.ServeHTTP: the header is read, an ID is generated if  *)
(* it is empty, and the ID is put into the request's context               *)
TraceEnter(header, client, generated) ==
    LET traceID == IF header = EmptyStr THEN New(generated + 1) ELSE header IN
    [header |-> header, traceID |-> traceID,
     ctx |-> NewContext(EmptyTable, traceID), pc |-> "handler",
     Status |-> 200, client |-> client, body |-> EmptyTable]

(* fn: the request, carrying X-Trace-Id, reaches the server; Trace reads   *)
(* the header (or generates an ID) and calls the handler                   *)
ClientSend(w) ==
    /\ workers[w].pc = "fn"
    /\ LET h == workers[w].traceID
       IN /\ inflight' = Put(inflight, ReqId(w), TraceEnter(h, w, nextTrace))
          /\ nextTrace' = IF h = EmptyStr THEN nextTrace + 1 ELSE nextTrace
    /\ workers' = [workers EXCEPT ![w].pc = "await"]
    /\ UNCHANGED <<jobs, sent, closed, aggVars, logFile, extraVars>>

(* fn: p.client.Do fails before the server sees the request *)
ClientConnectError(w) ==
    /\ workers[w].pc = "fn"
    /\ workers' = [workers EXCEPT ![w].pc = "err", ![w].lastStatusCode = 0]
    /\ UNCHANGED <<jobs, sent, closed, nextTrace, aggVars, serverVars, extraVars>>

HandlerEntry(traceID, status, message) ==
    [traceId |-> Marshal(traceID), method |-> Str(<<"GET">>), path |-> Str(<<"/hello">>),
     status |-> Num(status), message |-> Str(<<message>>)]

CompletedEntry(traceID, status, latency) ==
    [traceId |-> Marshal(traceID), method |-> Str(<<"GET">>), path |-> Str(<<"/hello">>),
     status |-> Num(status), latencyMs |-> Num(latency),
     message |-> Str(<<"request completed">>)]

(* Hello: the response is encoded and "handler finished" is logged, or the *)
(* encoding fails (the write fails: the client has gone), the status is    *)
(* set to 500 and the failure is logged                                    *)
HelloBody(traceID) ==
    [message |-> Str(<<"hello">>), traceId |-> Marshal(traceID),
     path |-> Str(<<"/hello">>)]

Hello(r) ==
    /\ r \in DOMAIN inflight
    /\ inflight[r].pc = "handler"
    /\ LET traceID == FromContext(inflight[r].ctx) IN
       \E encoded \in {TRUE} \cup {FALSE : x \in {0} \cap {inflight[r].client}} :
         IF encoded
         THEN /\ logFile' = Append(logFile,
                    HandlerEntry(traceID, 200, "handler finished"))
              /\ inflight' = [inflight EXCEPT ![r].pc = "served",
                                              ![r].body = HelloBody(traceID)]
         ELSE /\ logFile' = Append(logFile,
                    HandlerEntry(traceID, 500, "failed to encode response"))
              /\ inflight' = [inflight EXCEPT ![r].pc = "served",
                                              ![r].Status = 500]
    /\ UNCHANGED <<poolVars, aggVars, extraVars>>

(* Trace with the entry written before next.ServeHTTP has returned *)
TraceCompleteEarly(r) ==
    /\ r \in DOMAIN inflight
    /\ inflight[r].pc \in {"handler", "served"}
    /\ \E latency \in Latencies :
         logFile' = Append(logFile,
             CompletedEntry(inflight[r].traceID, inflight[r].Status, latency))
    /\ inflight' = IF inflight[r].client = 0 THEN Remove(inflight, r)
                   ELSE [inflight EXCEPT ![r].pc = "done"]
    /\ UNCHANGED <<poolVars, aggVars, extraVars>>

(* Trace: after next.ServeHTTP returns, "request completed" is logged; a   *)
(* request whose client has gone ends here                                 *)
TraceComplete(r) ==
    /\ r \in DOMAIN inflight
    /\ inflight[r].pc = "served"
    /\ \E latency \in Latencies :
         logFile' = Append(logFile,
             CompletedEntry(inflight[r].traceID, inflight[r].Status, latency))
    /\ inflight' = IF inflight[r].client = 0 THEN Remove(inflight, r)
                   ELSE [inflight EXCEPT ![r].pc = "done"]
    /\ UNCHANGED <<poolVars, aggVars, extraVars>>

(* fn, after p.client.Do returned a response: nil ends Do, an error is     *)
(* handed to isRetryable                                                   *)
FnResult(status) ==
    IF status < 400 THEN "nil"
    ELSE IF ~(status >= 500 \/ status = 429) THEN "nil"
    ELSE "err"

(* fn: the response arrives *)
ClientResponse(w) ==
    /\ workers[w].pc = "await"
    /\ ReqId(w) \in DOMAIN inflight
    /\ inflight[ReqId(w)].pc = "done"
    /\ LET status == inflight[ReqId(w)].Status IN
       workers' = [workers EXCEPT
           ![w].lastStatusCode = status,
           ![w].pc = IF FnResult(status) = "nil" THEN "range" ELSE "err"]
    /\ inflight' = Remove(inflight, ReqId(w))
    /\ UNCHANGED <<jobs, sent, closed, nextTrace, aggVars, logFile, extraVars>>

(* fn: http.Client.Timeout expires while the server still handles the      *)
(* request; the handler runs on without its client                         *)
ClientTimeout(w) ==
    /\ workers[w].pc = "await"
    /\ ReqId(w) \in DOMAIN inflight
    /\ inflight[ReqId(w)].pc # "done"
    /\ workers' = [workers EXCEPT ![w].pc = "err", ![w].lastStatusCode = 0]
    /\ inflight' = [inflight EXCEPT ![ReqId(w)].client = 0]
    /\ UNCHANGED <<jobs, sent, closed, nextTrace, aggVars, logFile, extraVars>>

(* retry.Do after fn returned an error that isRetryable accepts: the last  *)
(* attempt returns it, any other waits and calls fn again                  *)
DoRetry(w) ==
    /\ workers[w].pc = "err"
    /\ IF workers[w].attempt = MaxRetries
       THEN workers' = [workers EXCEPT ![w].pc = "range"]
       ELSE workers' = [workers EXCEPT ![w].pc = "fn", ![w].attempt = @ + 1]
    /\ UNCHANGED <<jobs, sent, closed, nextTrace, aggVars, serverVars, extraVars>>

(* Fluent Bit tails app.log and runs the Lua filter on the next line *)
TailLog ==
    /\ Len(hist) < Len(logFile)
    /\ LET r == combine_logs(buffer, "app", Len(hist) + 1, logFile[Len(hist) + 1]) IN
       /\ buffer' = r.buffer
       /\ hist' = Append(hist, logFile[Len(hist) + 1])
       /\ rets' = Append(rets, r.ret)
    /\ UNCHANGED <<eof, poolVars, serverVars, extraVars>>

Requests == (1..Total) \X (0..MaxRetries)

PipelineNext ==
    \/ RunSend
    \/ RunClose
    \/ \E w \in Workers : WorkerTake(w)
    \/ \E w \in Workers : WorkerExit(w)
    \/ \E w \in Workers : ClientSend(w)
    \/ \E w \in Workers : ClientConnectError(w)
    \/ \E r \in Requests : Hello(r)
    \/ \E r \in Requests : TraceComplete(r)
    \/ \E w \in Workers : ClientResponse(w)
    \/ \E w \in Workers : ClientTimeout(w)
    \/ \E w \in Workers : DoRetry(w)
    \/ TailLog

PipelineSpec == Init /\ [][PipelineNext]_vars

----------------------------------------------------------------------------
(* The server alone: requests arrive with or without X-Trace-Id *)

Headers == {EmptyStr, Str(<<"test-trace-123">>), Str(<<"trace-", "0xFF">>)}

ServerRequests == 1..MaxRequests

(* a request for /hello is accepted and enters Trace *)
Accept ==
    /\ arrived < MaxRequests
    /\ \E header \in Headers :
         /\ inflight' = Put(inflight, arrived + 1,
                            TraceEnter(header, arrived + 1, nextTrace))
         /\ nextTrace' = IF header = EmptyStr THEN nextTrace + 1 ELSE nextTrace
    /\ arrived' = arrived + 1
    /\ UNCHANGED <<jobs, sent, closed, workers, aggVars, logFile, retryVars,
                   request, metricsVars, producers, lifecycleVars>>

(* the client goes away before the response is written *)
Disconnect(r) ==
    /\ r \in DOMAIN inflight
    /\ inflight[r].pc = "handler"
    /\ inflight[r].client # 0
    /\ inflight' = [inflight EXCEPT ![r].client = 0]
    /\ UNCHANGED <<poolVars, aggVars, logFile, extraVars>>

ServerNext ==
    \/ Accept
    \/ \E r \in ServerRequests : Disconnect(r)
    \/ \E r \in ServerRequests : Hello(r)
    \/ \E r \in ServerRequests : TraceComplete(r)

ServerSpec == Init /\ [][ServerNext]_vars

----------------------------------------------------------------------------
(* retry.Do: exponential backoff around fn *)

DefaultBaseDelay == 50
DefaultMultiplier == 2

Errors == {NoError, "retryableErr", "nonRetryableErr"}
CtxErrors == {"context canceled", "context deadline exceeded"}

(* the isRetryable of the package's tests: err == retryableErr *)
isRetryableAny(e) == e # NoError
isRetryable(e) == e = "retryableErr"

(* return x *)
Return(r, x) == [r EXCEPT !.pc = "returned", !.ret = x]

(* for ...; attempt <= maxRetries; ... { err = fn() ... }  return err *)
LoopHead(r) ==
    IF r.attempt <= r.maxRetries THEN [r EXCEPT !.pc = "fn"] ELSE Return(r, r.err)

(* if attempt == maxRetries *)
LastAttempt(r) == r.attempt = r.maxRetries

(* what Do does with the error e that fn returned *)
AfterFnRetryAll(r, e, retryable) ==
    LET q == [r EXCEPT !.err = e] IN
    IF LastAttempt(q) THEN Return(q, e) ELSE [q EXCEPT !.pc = "select"]
AfterFn(r, e, retryable) ==
    LET q == [r EXCEPT !.err = e] IN
    IF e = NoError THEN Return(q, NoError)
    ELSE IF ~retryable THEN Return(q, e)
    ELSE IF LastAttempt(q) THEN Return(q, e)
    ELSE [q EXCEPT !.pc = "select"]

(* case <-time.After(delay): the delay grows and the loop goes round *)
AfterDelaySkip(r) ==
    LoopHead([r EXCEPT !.delay = @ * DefaultMultiplier, !.attempt = @ + 2])
AfterDelay(r) ==
    LoopHead([r EXCEPT !.delay = @ * DefaultMultiplier, !.attempt = @ + 1])

(* case <-ctx.Done(): return ctx.Err() *)
AfterCtxDoneIgnored(r, e) == AfterDelay(r)
AfterCtxDone(r, e) == Return(r, e)

(* Do(ctx, maxRetries, fn, isRetryable) is called *)
DoCall ==
    /\ retry.pc = "idle"
    /\ \E maxRetries \in -1..MaxRetriesArg :
         retry' = LoopHead([IdleDo EXCEPT !.maxRetries = maxRetries,
                                          !.delay = DefaultBaseDelay])
    /\ UNCHANGED <<ctx, calls, nonRetryVars>>

(* err = fn(), and the three tests on it *)
DoFn ==
    /\ retry.pc = "fn"
    /\ \E e \in Errors :
         /\ calls' = Append(calls, e)
         /\ retry' = AfterFn(retry, e, isRetryable(e))
    /\ UNCHANGED <<ctx, nonRetryVars>>

(* select: Do is parked on ctx.Done() and the timer; the timer fires first *)
DoTimer ==
    /\ retry.pc = "select"
    /\ ctx = NoError
    /\ retry' = AfterDelay(retry)
    /\ UNCHANGED <<ctx, calls, nonRetryVars>>

(* select: ctx.Done() is closed, on entry or while Do is parked *)
DoCtxDone ==
    /\ retry.pc = "select"
    /\ ctx # NoError
    /\ retry' = AfterCtxDone(retry, ctx)
    /\ UNCHANGED <<ctx, calls, nonRetryVars>>

(* the caller's context is cancelled or its deadline passes *)
CtxDone ==
    /\ ctx = NoError
    /\ retry.pc # "returned"
    /\ \E e \in CtxErrors : ctx' = e
    /\ UNCHANGED <<retry, calls, nonRetryVars>>

RetryNext == DoCall \/ DoFn \/ DoTimer \/ DoCtxDone \/ CtxDone

(* fn returns, the runtime timer fires and a woken goroutine runs *)
RetrySpec ==
    /\ Init
    /\ [][RetryNext]_vars
    /\ WF_vars(DoFn) /\ WF_vars(DoTimer) /\ WF_vars(DoCtxDone)

----------------------------------------------------------------------------
(* Pool.doRequestWithRetry: one job, sent through retry.Do *)

Statuses == {200, 400, 404, 429, 500, 503}

(* what an attempt can meet: http.NewRequest rejects the target URL, the   *)
(* client fails to get a response, or a response with a status arrives     *)
BuildError == <<"build error", 0>>
NetworkError == <<"network error", 0>>
Response(status) == <<"response", status>>

Outcomes(target) ==
    IF target = "invalid" THEN {BuildError}
    ELSE {NetworkError} \cup {Response(status) : status \in Statuses}

(* the closure isRetryable, reading lastStatusCode *)
RequestIsRetryable(e, lastStatusCode) ==
    IF e # NoError THEN TRUE
    ELSE lastStatusCode >= 500 \/ lastStatusCode = 429

(* the closure handed to retry.Do: the locals after it ran and the error   *)
(* it returns                                                              *)
RequestFn(q, outcome, latency) ==
    IF outcome = BuildError
    THEN [q |-> q, err |-> "build error"]
    ELSE IF outcome = NetworkError
    THEN [q |-> [q EXCEPT !.lastLatency = latency, !.lastErr = "network error",
                          !.lastStatusCode = 0, !.attempt = @ + 1],
          err |-> "network error"]
    ELSE IF outcome[2] < 400
    THEN [q |-> [q EXCEPT !.lastLatency = latency, !.lastStatusCode = outcome[2]],
          err |-> NoError]
    ELSE IF ~RequestIsRetryable(NoError, outcome[2])
    THEN [q |-> [q EXCEPT !.lastLatency = latency, !.lastStatusCode = outcome[2]],
          err |-> NoError]
    ELSE [q |-> [q EXCEPT !.lastLatency = latency, !.lastStatusCode = outcome[2],
                          !.attempt = @ + 1, !.lastErr = "http: Server closed"],
          err |-> "http: Server closed"]

(* doRequestWithRetry is called: retry.Do(context.Background(),            *)
(* p.config.MaxRetries, ...)                                               *)
RequestStart ==
    /\ request.pc = "idle"
    /\ retry.pc = "idle"
    /\ \E target \in {"valid", "invalid"} :
         request' = [IdleRequest EXCEPT !.pc = "do", !.target = target]
    /\ retry' = LoopHead([IdleDo EXCEPT !.maxRetries = MaxRetries,
                                        !.delay = DefaultBaseDelay])
    /\ UNCHANGED <<ctx, calls, nonClientVars>>

(* retry.Do calls the closure and tests what it returned *)
RequestAttempt ==
    /\ request.pc = "do"
    /\ retry.pc = "fn"
    /\ \E outcome \in Outcomes(request.target), latency \in Latencies :
         LET r == RequestFn(request, outcome, latency) IN
         /\ request' = [r.q EXCEPT !.tries = Append(@, outcome)]
         /\ calls' = Append(calls, r.err)
         /\ retry' = AfterFn(retry, r.err,
                             RequestIsRetryable(r.err, r.q.lastStatusCode))
    /\ UNCHANGED <<ctx, nonClientVars>>

(* retry.Do has returned: if err != nil return false, else the status *)
RequestReturn ==
    /\ request.pc = "do"
    /\ retry.pc = "returned"
    /\ request' = [request EXCEPT
         !.pc = "done",
         !.success = IF retry.ret # NoError THEN FALSE
                     ELSE request.lastStatusCode < 400]
    /\ UNCHANGED <<retryVars, nonClientVars>>

ClientNext == RequestStart \/ RequestAttempt \/ DoTimer \/ RequestReturn

ClientSpec == Init /\ [][ClientNext]_vars

----------------------------------------------------------------------------
(* combine_logs called by several producers at once on the one global      *)
(* buffer, interleaved statement by statement                              *)

ProducerRecords ==
    { [traceId |-> KeyAbc, message |-> HandlerFinished],
      With(AuxStatus, [traceId |-> KeyAbc, message |-> HandlerFinished]),
      With(AuxLatency, [traceId |-> KeyAbc, message |-> RequestCompleted]),
      With(AuxGet, [traceId |-> KeyXyz, message |-> HandlerFinished]),
      [message |-> Startup] }

Step(p, pc) == producers' = [producers EXCEPT ![p].pc = pc]

(* lines 21-30: the call, the traceId test and the locals *)
Call(p) ==
    /\ producers[p].pc = "idle"
    /\ \E record \in ProducerRecords :
         LET timestamp == Len(hist) + 1
             traceId == Get(record, "traceId")
         IN /\ hist' = Append(hist, record)
            /\ IF ~IsKeyed(traceId)
               THEN /\ rets' = Append(rets, PassThrough(timestamp, record))
                    /\ producers' = [producers EXCEPT ![p] =
                         [IdleProducer EXCEPT !.pc = "returned",
                            !.timestamp = timestamp, !.record = record,
                            !.traceId = traceId]]
               ELSE /\ rets' = rets
                    /\ producers' = [producers EXCEPT ![p] =
                         [pc |-> "if not buffer[traceId]",
                          timestamp |-> timestamp, record |-> record,
                          traceId |-> traceId, message |-> MessageOf(record),
                          is_complete |-> is_complete(MessageOf(record))]]
    /\ UNCHANGED <<buffer, nonProducerVars>>

(* line 33: if not buffer[traceId] *)
IfAbsent(p) ==
    /\ producers[p].pc = "if not buffer[traceId]"
    /\ Step(p, IF producers[p].traceId \in DOMAIN buffer
               THEN "table.insert" ELSE "buffer[traceId] = {}")
    /\ UNCHANGED <<buffer, hist, rets, nonProducerVars>>

(* lines 34-41: buffer[traceId] = { ... } *)
Create(p) ==
    /\ producers[p].pc = "buffer[traceId] = {}"
    /\ buffer' = Put(buffer, producers[p].traceId,
                      NewEntry(producers[p].traceId, producers[p].record))
    /\ Step(p, "table.insert")
    /\ UNCHANGED <<hist, rets, nonProducerVars>>

(* line 45: table.insert(buffer[traceId].messages, message); indexing a    *)
(* nil entry raises an error and the call ends without a result            *)
Insert(p) ==
    /\ producers[p].pc = "table.insert"
    /\ IF producers[p].traceId \in DOMAIN buffer
       THEN /\ buffer' = [buffer EXCEPT ![producers[p].traceId] =
                            InsertMessage(@, producers[p].message)]
            /\ Step(p, "update")
       ELSE /\ buffer' = buffer
            /\ Step(p, "error")
    /\ UNCHANGED <<hist, rets, nonProducerVars>>

(* lines 48-59: the four field updates, then line 62 and, for a record     *)
(* that is not terminal, line 80: return -1                                *)
Update(p) ==
    /\ producers[p].pc = "update"
    /\ LET q == producers[p]
           writes == \E f \in {"method", "path", "status", "latencyMs"} :
                        Truthy(Get(q.record, f))
       IN IF q.traceId \notin DOMAIN buffer /\ writes
          THEN /\ Step(p, "error")
               /\ UNCHANGED <<buffer, rets>>
          ELSE /\ buffer' = IF q.traceId \in DOMAIN buffer
                            THEN [buffer EXCEPT ![q.traceId] =
                                    UpdateFields(@, q.record)]
                            ELSE buffer
               /\ IF q.is_complete
                  THEN /\ Step(p, "flush")
                       /\ rets' = rets
                  ELSE /\ Step(p, "returned")
                       /\ rets' = Append(rets, Suppress(q.timestamp, q.record))
    /\ UNCHANGED <<hist, nonProducerVars>>

(* lines 63-76: the combined record is built, the entry removed, return 1  *)
Flush(p) ==
    /\ producers[p].pc = "flush"
    /\ LET q == producers[p] IN
       IF q.traceId \in DOMAIN buffer
       THEN /\ rets' = Append(rets,
                   PassThrough(q.timestamp, Combined(buffer[q.traceId])))
            /\ buffer' = FlushBuffer(buffer, q.traceId)
            /\ Step(p, "returned")
       ELSE /\ Step(p, "error")
            /\ UNCHANGED <<buffer, rets>>
    /\ UNCHANGED <<hist, nonProducerVars>>

ProducersNext ==
    \/ \E p \in Producers : Call(p)
    \/ \E p \in Producers : IfAbsent(p)
    \/ \E p \in Producers : Create(p)
    \/ \E p \in Producers : Insert(p)
    \/ \E p \in Producers : Update(p)
    \/ \E p \in Producers : Flush(p)

ProducersSpec == Init /\ [][ProducersNext]_vars

----------------------------------------------------------------------------
(* MetricsService.StartUserOperationTimer and the stop function it returns, *)
(* called by concurrent goroutines; each calls its stop function once       *)

(* m.mu.Lock() returns *)
CanLockAlways(m) == TRUE
CanLock(m) == m = 0

At(g, pc) == timers[g].pc = pc

Goto(g, pc) == timers' = [timers EXCEPT ![g].pc = pc]

(* m.mu.Lock(), in StartUserOperationTimer or in the stop function *)
Lock(g) ==
    /\ At(g, "idle") \/ At(g, "observed")
    /\ CanLock(mu)
    /\ mu' = g
    /\ Goto(g, IF At(g, "idle") THEN "start locked" ELSE "stop locked")
    /\ UNCHANGED <<activeOperationsCount, userActiveOperations, nonMetricsVars>>

(* m.activeOperationsCount++ and --: the field is read ... *)
Load(g) ==
    /\ At(g, "start locked") \/ At(g, "stop locked")
    /\ timers' = [timers EXCEPT
         ![g].loaded = activeOperationsCount,
         ![g].pc = IF At(g, "start locked") THEN "start loaded" ELSE "stop loaded"]
    /\ UNCHANGED <<mu, activeOperationsCount, userActiveOperations, nonMetricsVars>>

(* ... and written back, one more or one less *)
Store(g) ==
    /\ At(g, "start loaded") \/ At(g, "stop loaded")
    /\ activeOperationsCount' =
         IF At(g, "start loaded") THEN timers[g].loaded + 1
         ELSE timers[g].loaded - 1
    /\ Goto(g, IF At(g, "start loaded") THEN "start stored" ELSE "stop stored")
    /\ UNCHANGED <<mu, userActiveOperations, nonMetricsVars>>

(* m.userActiveOperations.Set(float64(m.activeOperationsCount)) *)
Set(g) ==
    /\ At(g, "start stored") \/ At(g, "stop stored")
    /\ userActiveOperations' = activeOperationsCount
    /\ Goto(g, IF At(g, "start stored") THEN "start set" ELSE "stop set")
    /\ UNCHANGED <<mu, activeOperationsCount, nonMetricsVars>>

(* m.mu.Unlock(); StartUserOperationTimer then returns the stop function *)
Unlock(g) ==
    /\ At(g, "start set") \/ At(g, "stop set")
    /\ mu' = 0
    /\ Goto(g, IF At(g, "start set") THEN "running" ELSE "stopped")
    /\ UNCHANGED <<activeOperationsCount, userActiveOperations, nonMetricsVars>>

(* the stop function is called: the duration is observed *)
Observe(g) ==
    /\ At(g, "running")
    /\ timers' = [timers EXCEPT ![g].pc = "observed", ![g].observed = TRUE]
    /\ UNCHANGED <<mu, activeOperationsCount, userActiveOperations, nonMetricsVars>>

MetricsNext ==
    \/ \E g \in Goroutines : Lock(g)
    \/ \E g \in Goroutines : Load(g)
    \/ \E g \in Goroutines : Store(g)
    \/ \E g \in Goroutines : Set(g)
    \/ \E g \in Goroutines : Unlock(g)
    \/ \E g \in Goroutines : Observe(g)

MetricsSpec == Init /\ [][MetricsNext]_vars

----------------------------------------------------------------------------
(* metrics.Collector: Trace records each request, GetStats reads *)

RecordedStatuses == {200, 500}
RecordedLatencies == {20, 52}

(* Trace: next.ServeHTTP has returned with rec.Status, latency is taken *)
TraceRecord(r) ==
    /\ recording[r].pc = "idle"
    /\ \E status \in RecordedStatuses, latency \in RecordedLatencies :
         recording' = [recording EXCEPT
             ![r] = [pc |-> "RecordRequest", Status |-> status, latency |-> latency]]
    /\ UNCHANGED <<collector, getStats, run, mongo, baseVars>>

RecordRequest(r) ==
    /\ recording[r].pc = "RecordRequest"
    /\ collector' = [collector EXCEPT !.requestCount = @ + 1]
    /\ recording' = [recording EXCEPT
           ![r].pc = IF recording[r].Status >= 400 THEN "RecordError"
                     ELSE "RecordLatency"]
    /\ UNCHANGED <<getStats, run, mongo, baseVars>>

RecordError(r) ==
    /\ recording[r].pc = "RecordError"
    /\ collector' = [collector EXCEPT !.errorCount = @ + 1]
    /\ recording' = [recording EXCEPT ![r].pc = "RecordLatency"]
    /\ UNCHANGED <<getStats, run, mongo, baseVars>>

RecordLatency(r) ==
    /\ recording[r].pc = "RecordLatency"
    /\ collector' = [collector EXCEPT !.totalLatencyMs = @ + recording[r].latency]
    /\ recording' = [recording EXCEPT ![r].pc = "done"]
    /\ UNCHANGED <<getStats, run, mongo, baseVars>>

GetStatsCall ==
    /\ getStats.pc = "idle"
    /\ getStats' = [getStats EXCEPT !.pc = "requestCount.Load"]
    /\ UNCHANGED <<collector, recording, run, mongo, baseVars>>

GetStatsLoadRequestCount ==
    /\ getStats.pc = "requestCount.Load"
    /\ getStats' = [getStats EXCEPT !.reqCount = collector.requestCount,
                                    !.pc = "errorCount.Load"]
    /\ UNCHANGED <<collector, recording, run, mongo, baseVars>>

GetStatsLoadErrorCount ==
    /\ getStats.pc = "errorCount.Load"
    /\ getStats' = [getStats EXCEPT !.errCount = collector.errorCount,
                                    !.pc = "totalLatencyMs.Load"]
    /\ UNCHANGED <<collector, recording, run, mongo, baseVars>>

Stats(reqCount, errCount, totalLatency) ==
    [RequestCount |-> reqCount,
     ErrorCount |-> errCount,
     AvgLatencyMs |-> IF reqCount > 0 THEN totalLatency \div reqCount ELSE 0]

GetStatsReturn ==
    /\ getStats.pc = "totalLatencyMs.Load"
    /\ getStats' = [getStats EXCEPT
           !.totalLatency = collector.totalLatencyMs,
           !.ret = <<Stats(getStats.reqCount, getStats.errCount,
                           collector.totalLatencyMs)>>,
           !.pc = "returned"]
    /\ UNCHANGED <<collector, recording, run, mongo, baseVars>>

CollectorNext ==
    \/ \E r \in Recorded : TraceRecord(r)
    \/ \E r \in Recorded : RecordRequest(r)
    \/ \E r \in Recorded : RecordError(r)
    \/ \E r \in Recorded : RecordLatency(r)
    \/ GetStatsCall
    \/ GetStatsLoadRequestCount
    \/ GetStatsLoadErrorCount
    \/ GetStatsReturn

CollectorSpec == Init /\ [][CollectorNext]_vars

----------------------------------------------------------------------------
(* Pool.Run and its workers, for any Total and Concurrency *)

PoolWorkers == 1..MaxConcurrency

(* Pool.Run is called with its configuration; jobs := make(chan int, Total) *)
PoolRun ==
    /\ run.pc = "idle"
    /\ \E total \in 0..MaxTotal, concurrency \in 0..MaxConcurrency :
         run' = [run EXCEPT !.pc = "go", !.Total = total,
                            !.Concurrency = concurrency]
    /\ UNCHANGED <<collectorVars, mongo, baseVars>>

(* for i < Concurrency: wg.Add(1); go p.worker(i, jobs, &wg) *)
PoolGo ==
    /\ run.pc = "go"
    /\ run' = IF run.i < run.Concurrency
              THEN [run EXCEPT !.wg = @ + 1, !.i = @ + 1,
                       !.workers = Append(@, [pc |-> "range", job |-> 0,
                                              traceID |-> Nil])]
              ELSE [run EXCEPT !.pc = "send", !.i = 0]
    /\ UNCHANGED <<collectorVars, mongo, baseVars>>

(* for i < Total: jobs <- i + 1; the channel has room for Total jobs *)
PoolSend ==
    /\ run.pc = "send"
    /\ run.i < run.Total
    /\ Len(run.jobs) < run.Total
    /\ run' = [run EXCEPT !.jobs = Append(@, run.i + 1), !.i = @ + 1]
    /\ UNCHANGED <<collectorVars, mongo, baseVars>>

(* close(jobs) *)
PoolClose ==
    /\ run.pc = "send"
    /\ run.i >= run.Total
    /\ run' = [run EXCEPT !.closed = TRUE, !.pc = "wg.Wait"]
    /\ UNCHANGED <<collectorVars, mongo, baseVars>>

(* wg.Wait() returns and Run returns *)
PoolWait ==
    /\ run.pc = "wg.Wait"
    /\ run.wg = 0
    /\ run' = [run EXCEPT !.pc = "returned"]
    /\ UNCHANGED <<collectorVars, mongo, baseVars>>

(* for job := range jobs, leaving the job in the channel *)
PoolWorkerRangeKeep(w) ==
    /\ w \in DOMAIN run.workers
    /\ run.workers[w].pc = "range"
    /\ run.jobs # <<>>
    /\ run' = [run EXCEPT
           !.nextTrace = @ + 1,
           !.workers[w] = [pc |-> "request", job |-> Head(run.jobs),
                           traceID |-> New(run.nextTrace + 1)]]
    /\ UNCHANGED <<collectorVars, mongo, baseVars>>

(* for job := range jobs: a job is received; traceID := trace.New() *)
PoolWorkerRange(w) ==
    /\ w \in DOMAIN run.workers
    /\ run.workers[w].pc = "range"
    /\ run.jobs # <<>>
    /\ run' = [run EXCEPT
           !.jobs = Tail(@),
           !.nextTrace = @ + 1,
           !.workers[w] = [pc |-> "request", job |-> Head(run.jobs),
                           traceID |-> New(run.nextTrace + 1)]]
    /\ UNCHANGED <<collectorVars, mongo, baseVars>>

(* doRequestWithRetry returns, the worker sleeps Interval and loops *)
PoolWorkerRequest(w) ==
    /\ w \in DOMAIN run.workers
    /\ run.workers[w].pc = "request"
    /\ run' = [run EXCEPT
           !.handled = Append(@, [worker |-> w - 1, job |-> run.workers[w].job,
                                  traceID |-> run.workers[w].traceID]),
           !.workers[w].pc = "range"]
    /\ UNCHANGED <<collectorVars, mongo, baseVars>>

(* range ends on the closed, drained channel; the deferred wg.Done() runs *)
PoolWorkerDone(w) ==
    /\ w \in DOMAIN run.workers
    /\ run.workers[w].pc = "range"
    /\ run.jobs = <<>>
    /\ run.closed
    /\ run' = [run EXCEPT !.workers[w].pc = "exited", !.wg = @ - 1]
    /\ UNCHANGED <<collectorVars, mongo, baseVars>>

PoolNext ==
    \/ PoolRun
    \/ PoolGo
    \/ PoolSend
    \/ PoolClose
    \/ PoolWait
    \/ \E w \in PoolWorkers : PoolWorkerRange(w)
    \/ \E w \in PoolWorkers : PoolWorkerRequest(w)
    \/ \E w \in PoolWorkers : PoolWorkerDone(w)

(* every goroutine that can run is scheduled, and every request returns *)
PoolSpec ==
    /\ Init /\ [][PoolNext]_vars
    /\ WF_vars(PoolGo) /\ WF_vars(PoolSend) /\ WF_vars(PoolClose)
    /\ WF_vars(PoolWait)
    /\ \A w \in PoolWorkers :
          /\ WF_vars(PoolWorkerRange(w))
          /\ WF_vars(PoolWorkerRequest(w))
          /\ WF_vars(PoolWorkerDone(w))

----------------------------------------------------------------------------
(* MongoDBMetricsCollector: Start, collectLoop, Stop *)

(* Start: c.wg.Add(1); go c.collectLoop(interval) *)
MongoStart ==
    /\ mongo.loop = "none"
    /\ mongo' = [mongo EXCEPT !.wg = @ + 1, !.loop = "NewTicker"]
    /\ UNCHANGED <<collectorVars, run, baseVars>>

(* collectLoop: ticker := time.NewTicker(interval) *)
NewTicker ==
    /\ mongo.loop = "NewTicker"
    /\ mongo' = [mongo EXCEPT !.loop = "collect"]
    /\ UNCHANGED <<collectorVars, run, baseVars>>

(* the running ticker sends on ticker.C, which holds one tick at most *)
Tick ==
    /\ mongo.loop \in {"collect", "select"}
    /\ mongo.ticks < MaxTicks
    /\ mongo' = [mongo EXCEPT !.tick = TRUE, !.ticks = @ + 1]
    /\ UNCHANGED <<collectorVars, run, baseVars>>

(* c.collectConnectionPoolStats() *)
collectConnectionPoolStats ==
    /\ mongo.loop = "collect"
    /\ mongo' = [mongo EXCEPT !.collections = @ + 1, !.loop = "select"]
    /\ UNCHANGED <<collectorVars, run, baseVars>>

(* select: case <-ticker.C *)
SelectTick ==
    /\ mongo.loop = "select"
    /\ mongo.tick
    /\ mongo' = [mongo EXCEPT !.tick = FALSE, !.loop = "collect"]
    /\ UNCHANGED <<collectorVars, run, baseVars>>

(* select: case <-c.stopCh: return; ticker.Stop() and c.wg.Done() run *)
SelectStop ==
    /\ mongo.loop = "select"
    /\ mongo.stopCh = "closed"
    /\ mongo' = [mongo EXCEPT !.loop = "exited", !.wg = @ - 1]
    /\ UNCHANGED <<collectorVars, run, baseVars>>

(* Stop, called after Start: close(c.stopCh) *)
MongoStop ==
    /\ mongo.stop = "idle"
    /\ mongo.loop # "none"
    /\ mongo' = [mongo EXCEPT !.stopCh = "closed", !.stop = "wg.Wait"]
    /\ UNCHANGED <<collectorVars, run, baseVars>>

(* Stop returning without c.wg.Wait() *)
MongoStopNoWait ==
    /\ mongo.stop = "wg.Wait"
    /\ mongo' = [mongo EXCEPT !.stop = "returned"]
    /\ UNCHANGED <<collectorVars, run, baseVars>>

(* Stop: c.wg.Wait() returns *)
MongoStopWait ==
    /\ mongo.stop = "wg.Wait"
    /\ mongo.wg = 0
    /\ mongo' = [mongo EXCEPT !.stop = "returned"]
    /\ UNCHANGED <<collectorVars, run, baseVars>>

MongoNext ==
    \/ MongoStart
    \/ NewTicker
    \/ Tick
    \/ collectConnectionPoolStats
    \/ SelectTick
    \/ SelectStop
    \/ MongoStop
    \/ MongoStopWait

(* the goroutines are scheduled, and a select whose stop case is ready      *)
(* again and again takes it in the end                                      *)
MongoSpec ==
    /\ Init /\ [][MongoNext]_vars
    /\ WF_vars(NewTicker) /\ WF_vars(collectConnectionPoolStats)
    /\ SF_vars(SelectStop) /\ WF_vars(MongoStopWait)

----------------------------------------------------------------------------
(* What the stream says, read from hist alone *)

TraceIdOf(r) == IF "traceId" \in DOMAIN r THEN r["traceId"] ELSE Nil

TextOf(r) == IF "message" \in DOMAIN r THEN r["message"][2] ELSE <<>>

HasMarker(r) == \E i \in 1..Len(TextOf(r)) : TextOf(r)[i] = "request completed"

IsNonEmptyString(v) == v[1] = "string" /\ v[2] # <<>>

BufferedKeys == StringKeys \cup {KeyNum}

AuxFields == {"method", "path", "status", "latencyMs"}

Max(S) == CHOOSE x \in S : \A y \in S : y <= x

Positions(k) == {i \in 1..Len(hist) : TraceIdOf(hist[i]) = k}

Before(k, i) == {j \in Positions(k) : j < i}

(* the record at i is the first of a Group of k *)
OpensGroup(k, i) ==
    /\ i \in Positions(k)
    /\ Before(k, i) = {} \/ HasMarker(hist[Max(Before(k, i))])

GroupStart(k, i) == Max({j \in Positions(k) : j <= i /\ OpensGroup(k, j)})

Span(k, i) == {j \in Positions(k) : GroupStart(k, i) <= j /\ j <= i}

RECURSIVE MessagesIn(_, _, _)
MessagesIn(k, from, to) ==
    IF from > to THEN <<>>
    ELSE (IF TraceIdOf(hist[from]) = k THEN <<TextOf(hist[from])>> ELSE <<>>)
         \o MessagesIn(k, from + 1, to)

RECURSIVE JoinLines(_)
JoinLines(ms) ==
    IF ms = <<>> THEN <<>>
    ELSE IF Len(ms) = 1 THEN ms[1]
    ELSE JoinLines(SubSeq(ms, 1, Len(ms) - 1)) \o <<"\n">> \o ms[Len(ms)]

GroupsCreated(k) == Cardinality({i \in Positions(k) : OpensGroup(k, i)})

EmittedFor(k) ==
    Cardinality({i \in 1..Len(rets) : rets[i][1] = 1 /\ TraceIdOf(rets[i][3]) = k})

Flushes == {i \in 1..Len(hist) :
              TraceIdOf(hist[i]) \in BufferedKeys /\ HasMarker(hist[i])}

----------------------------------------------------------------------------
(* Claims *)

(* C1: no Group is emitted more than once: for every key the number of     *)
(* combined records emitted never exceeds the number of Groups created for *)
(* it, and a Group that has been emitted is no longer in the buffer.       *)
C1_AtMostOnce ==
    \A k \in BufferedKeys :
        /\ EmittedFor(k) <= GroupsCreated(k)
        /\ EmittedFor(k) = GroupsCreated(k) => k \notin DOMAIN buffer

C1_Witness ==
    \E k \in BufferedKeys :
        GroupsCreated(k) = 2 /\ EmittedFor(k) = 1 /\ k \in DOMAIN buffer

(* C2: every Group that received a record is eventually emitted and absent *)
(* from the store, even if its terminal record never arrives.              *)
C2_EventuallyFlushed ==
    \A k \in BufferedKeys : (k \in DOMAIN buffer) ~> (k \notin DOMAIN buffer)

(* C3: the message of the combined record is exactly the messages of its   *)
(* key since the Group was opened, in arrival order, joined by newline,    *)
(* whatever records of other keys arrived in between.                      *)
C3_MessageOrder ==
    \A i \in Flushes :
        LET k == TraceIdOf(hist[i]) IN
        /\ rets[i][1] = 1
        /\ Get(rets[i][3], "message")
             = Str(JoinLines(MessagesIn(k, GroupStart(k, i), i)))

C3_Witness ==
    \E i \in Flushes :
        LET k == TraceIdOf(hist[i]) IN
        /\ Cardinality(Span(k, i)) >= 2
        /\ \E j \in GroupStart(k, i)..i : TraceIdOf(hist[j]) \in BufferedKeys \ {k}
        /\ Len(rets[i][3]["message"][2]) >= 3

(* C4: each auxiliary field of the combined record carries the value of    *)
(* the most recent record of the Group that supplied it, and is absent     *)
(* when no record of the Group supplied it.                                *)
C4_LatestWins ==
    \A i \in Flushes : \A f \in AuxFields :
        LET k == TraceIdOf(hist[i])
            S == {j \in Span(k, i) : f \in DOMAIN hist[j]}
        IN  IF S = {} THEN f \notin DOMAIN rets[i][3]
            ELSE Get(rets[i][3], f) = hist[Max(S)][f]

C4_Witness ==
    \E i \in Flushes :
        LET k == TraceIdOf(hist[i]) IN
        /\ \E j \in Span(k, i) : Get(hist[j], "status") = Num(200)
        /\ Get(hist[i], "status") = Num(500)
        /\ Get(rets[i][3], "status") = Num(500)

(* C5: a terminal record for a key that has no Group is emitted on the     *)
(* same call as a record holding only its own message, and no Group for    *)
(* the key is left in the store.                                           *)
C5_ImmediateCompletion ==
    \A i \in Flushes :
        LET k == TraceIdOf(hist[i]) IN
        OpensGroup(k, i) =>
            /\ rets[i][1] = 1
            /\ TraceIdOf(rets[i][3]) = k
            /\ Get(rets[i][3], "message") = hist[i]["message"]
            /\ i = Len(hist) => k \notin DOMAIN buffer

C5_Witness ==
    \E i \in Flushes :
        /\ OpensGroup(TraceIdOf(hist[i]), i)
        /\ i = Len(hist)
        /\ rets[i][1] = 1
        /\ hist[i]["message"] = Embedded

(* C6: a record whose traceId is missing or empty is returned unchanged    *)
(* with code 1 by the call that receives it and the store is left as it    *)
(* was, whatever its message.                                              *)
C6_PassThroughFrame ==
    [][(Len(hist') = Len(hist) + 1
          /\ TraceIdOf(hist'[Len(hist')]) \in {Nil, EmptyStr})
        => (/\ buffer' = buffer
            /\ rets'[Len(hist')] = <<1, Len(hist'), hist'[Len(hist')]>>)]_vars

C6_Witness ==
    /\ Len(hist) >= 2
    /\ TraceIdOf(hist[Len(hist)]) = EmptyStr
    /\ HasMarker(hist[Len(hist)])
    /\ rets[Len(hist)] = <<1, Len(hist), hist[Len(hist)]>>
    /\ DOMAIN buffer # {}

(* C7: the number of live Groups never exceeds the configured maximum.     *)
C7_CapacityBound == Cardinality(DOMAIN buffer) <= MaxEvents

(* C8: "handler finished" then "request completed" for a fresh key abc:    *)
(* nothing is emitted for the first record and the second emits the one    *)
(* combined record of the example, latencyMs coming from the later record. *)
ScenarioFirst ==
    [traceId |-> KeyAbc, message |-> HandlerFinished, status |-> Num(200)]

ScenarioSecond ==
    [traceId |-> KeyAbc, message |-> RequestCompleted, status |-> Num(200),
     latencyMs |-> Num(52)]

ScenarioCombined ==
    [traceId |-> KeyAbc,
     message |-> Str(<<"handler finished", "\n", "request completed">>),
     status |-> Num(200), latencyMs |-> Num(52)]

ScenarioAt(i) ==
    /\ i + 1 <= Len(hist)
    /\ hist[i] = ScenarioFirst
    /\ hist[i + 1] = ScenarioSecond
    /\ OpensGroup(KeyAbc, i)

C8_Scenario ==
    \A i \in 1..Len(hist) :
        ScenarioAt(i) =>
            /\ rets[i][1] = -1
            /\ rets[i + 1][1] = 1
            /\ rets[i + 1][3] = ScenarioCombined

C8_Witness ==
    /\ ScenarioAt(1)
    /\ rets[2][3] = ScenarioCombined

(* C9: a record is buffered for aggregation if and only if its traceId is  *)
(* a non-empty string; with an absent, empty or non-string traceId it is   *)
(* passed through and no Group is created.                                 *)
C9_KeyedIffString ==
    /\ \A k \in DOMAIN buffer : IsNonEmptyString(k)
    /\ \A i \in 1..Len(hist) :
         IF IsNonEmptyString(TraceIdOf(hist[i]))
         THEN HasMarker(hist[i]) \/ rets[i][1] = -1
         ELSE rets[i] = <<1, i, hist[i]>>

(* C10: once client, server and aggregator have finished, every traceId   *)
(* found in the log has yielded exactly one emitted document, and that     *)
(* document holds every line the server wrote with that traceId.           *)
Quiescent ==
    /\ closed
    /\ jobs = <<>>
    /\ \A w \in Workers : workers[w].pc = "exit"
    /\ DOMAIN inflight = {}
    /\ Len(hist) = Len(logFile)

LoggedTraceIds == {TraceIdOf(logFile[i]) : i \in 1..Len(logFile)}

C10_OneDocumentPerTrace ==
    Quiescent =>
        \A t \in LoggedTraceIds :
            /\ EmittedFor(t) = 1
            /\ \E i \in 1..Len(rets) :
                 /\ rets[i][1] = 1
                 /\ TraceIdOf(rets[i][3]) = t
                 /\ Get(rets[i][3], "message")
                      = Str(JoinLines(MessagesIn(t, 1, Len(hist))))

----------------------------------------------------------------------------
(* retry.Do, read from what fn returned and what Do returned *)

Returned == retry.pc = "returned"

AllRetryable(n) == \A i \in 1..n : calls[i] = "retryableErr"

(* C14: Do never calls fn more than maxRetries + 1 times; when every call  *)
(* fails with a retryable error and the context is never done, Do calls    *)
(* fn exactly maxRetries + 1 times, terminates and returns the last error. *)
C14_BoundedCalls ==
    /\ [](retry.pc # "idle" =>
            /\ Len(calls) <= retry.maxRetries + 1
            /\ (Returned /\ ctx = NoError /\ AllRetryable(Len(calls))) =>
                 /\ Len(calls) = retry.maxRetries + 1
                 /\ calls # <<>> => retry.ret = calls[Len(calls)])
    /\ (retry.pc # "idle") ~>
          (Returned \/ ctx # NoError \/ ~AllRetryable(Len(calls)))

C14_Witness ==
    /\ Returned
    /\ ctx = NoError
    /\ retry.maxRetries = 2
    /\ calls = <<"retryableErr", "retryableErr", "retryableErr">>
    /\ retry.ret = "retryableErr"

(* C15: when fn first returns nil on its k-th call, after retryable        *)
(* errors only, Do has returned nil and fn was called exactly k times.     *)
C15_StopsAtSuccess ==
    \A k \in 1..Len(calls) :
        (calls[k] = NoError /\ AllRetryable(k - 1)) =>
            /\ Len(calls) = k
            /\ k <= retry.maxRetries + 1
            /\ Returned
            /\ retry.ret = NoError

C15_Witness ==
    /\ Returned
    /\ retry.maxRetries = 2
    /\ calls = <<"retryableErr", "retryableErr", NoError>>
    /\ retry.ret = NoError

(* C16: when fn returns an error that isRetryable rejects, Do returns that *)
(* same error at once: it does not wait and does not call fn again.        *)
C16_NonRetryableReturns ==
    \A k \in 1..Len(calls) :
        calls[k] = "nonRetryableErr" =>
            /\ Len(calls) = k
            /\ Returned
            /\ retry.ret = "nonRetryableErr"
            /\ retry.attempt = k - 1

C16_Witness ==
    /\ Returned
    /\ retry.maxRetries = 2
    /\ calls = <<"retryableErr", "nonRetryableErr">>
    /\ retry.ret = "nonRetryableErr"

(* C17: when the context is done while Do waits between two attempts, the  *)
(* next thing Do does is return ctx.Err() without calling fn again; a Do   *)
(* that returned ctx.Err() called fn at least once and fewer than          *)
(* maxRetries + 1 times.                                                   *)
C17_CancelledWhileWaiting ==
    [][/\ (retry.pc = "select" /\ ctx # NoError /\ retry' # retry) =>
            /\ retry'.pc = "returned"
            /\ retry'.ret = ctx
            /\ calls' = calls
       /\ (retry'.pc = "returned" /\ retry'.ret \in CtxErrors) =>
            /\ Len(calls') >= 1
            /\ Len(calls') < retry'.maxRetries + 1]_vars

C17_Witness ==
    /\ Returned
    /\ retry.ret = "context deadline exceeded"
    /\ retry.maxRetries = 3
    /\ calls = <<"retryableErr", "retryableErr">>

----------------------------------------------------------------------------
(* doRequestWithRetry, read from what each attempt met *)

Transient(outcome) ==
    \/ outcome[1] = "network error"
    \/ outcome[1] = "response" /\ (outcome[2] >= 500 \/ outcome[2] = 429)

Ok(outcome) == outcome[1] = "response" /\ outcome[2] < 400

Rejected(outcome) ==
    outcome[1] = "response" /\ outcome[2] >= 400 /\ outcome[2] < 500
        /\ outcome[2] # 429

(* C18: an attempt is followed by another one only if it met a network     *)
(* error, a 5xx or a 429 and fewer than MaxRetries retries were made; a    *)
(* 4xx other than 429 ends the job as failed and a status below 400 ends   *)
(* it as a success.                                                        *)
C18_RetryOnlyTransient ==
    /\ \A i \in 1..(Len(request.tries) - 1) :
          Transient(request.tries[i]) /\ i <= MaxRetries
    /\ \A i \in 1..Len(request.tries) :
          (Ok(request.tries[i]) \/ Rejected(request.tries[i])) =>
              /\ i = Len(request.tries)
              /\ retry.pc = "returned"
              /\ request.pc = "done" => (request.success <=> Ok(request.tries[i]))

(* the same, for a target URL that http.NewRequest accepts *)
C18_ValidTarget == request.target = "valid" => C18_RetryOnlyTransient

----------------------------------------------------------------------------
(* Trace and Hello, read from the header, the log and the response body *)

LastLine == logFile'[Len(logFile')]

WroteFor(r) ==
    /\ r \in DOMAIN inflight
    /\ Len(logFile') = Len(logFile) + 1
    /\ r \notin DOMAIN inflight' \/ inflight'[r].pc # inflight[r].pc

Entered(r) == r \notin DOMAIN inflight /\ r \in DOMAIN inflight'

Verbatim(h) == h

ValidUTF8(h) ==
    Str([i \in 1..Len(h[2]) |->
           IF h[2][i] = "0xFF" \/ h[2][i] = "0xFE" THEN "U+FFFD" ELSE h[2][i]])

TraceIdCarried(Want(_)) ==
    \A r \in ServerRequests :
        /\ Entered(r) /\ inflight'[r].header = EmptyStr =>
             /\ IsNonEmptyString(inflight'[r].traceID)
             /\ \A o \in DOMAIN inflight : inflight[o].traceID # inflight'[r].traceID
             /\ \A i \in 1..Len(logFile) : logFile[i].traceId # inflight'[r].traceID
        /\ WroteFor(r) =>
             LET id == IF inflight[r].header = EmptyStr THEN inflight[r].traceID
                       ELSE Want(inflight[r].header)
             IN /\ LastLine.traceId = id
                /\ \A o \in DOMAIN inflight' :
                     (o = r /\ "traceId" \in DOMAIN inflight'[o].body) =>
                         inflight'[o].body.traceId = id

(* C19, as the spec states it: a request whose X-Trace-Id header is the    *)
(* non-empty string h has traceId = h in every log entry written for it    *)
(* and in its response body; with an empty header one freshly generated ID *)
(* is used for all of them.                                                *)
C19_TraceIdIsHeader == [][TraceIdCarried(Verbatim)]_vars

(* C19, amended: the log entries and the response body carry h as JSON     *)
(* encodes it, that is h with every byte that is not valid UTF-8 replaced  *)
(* by U+FFFD (h itself when h is valid UTF-8); with an empty header one    *)
(* freshly generated ID is used for all of them.                           *)
C19_TraceIdIsEncodedHeader == [][TraceIdCarried(ValidUTF8)]_vars

C19_Witness ==
    \E r \in DOMAIN inflight :
        /\ inflight[r].pc = "done"
        /\ inflight[r].header = Str(<<"test-trace-123">>)
        /\ inflight[r].body.traceId = Str(<<"test-trace-123">>)
        /\ \E i, j \in 1..Len(logFile) :
             /\ i < j
             /\ logFile[i].traceId = Str(<<"test-trace-123">>)
             /\ logFile[i].message = Str(<<"handler finished">>)
             /\ logFile[j].traceId = Str(<<"test-trace-123">>)
             /\ logFile[j].message = Str(<<"request completed">>)

----------------------------------------------------------------------------
(* MetricsService, read from where each goroutine is *)

StartReturned(g) ==
    timers[g].pc \in {"running", "observed", "stop locked", "stop loaded",
                      "stop stored", "stop set", "stopped"}

StopReturned(g) == timers[g].pc = "stopped"

ActiveTimers == {g \in Goroutines : StartReturned(g) /\ ~StopReturned(g)}

(* C20: whenever no goroutine is inside the critical section, the count    *)
(* and the gauge equal the number of timers started and not yet stopped;   *)
(* neither ever goes below 0 when each stop function is called once.       *)
C20_ActiveOperations ==
    /\ activeOperationsCount >= 0
    /\ userActiveOperations >= 0
    /\ (\A g \in Goroutines : timers[g].pc \in {"idle", "running", "observed", "stopped"}) =>
          /\ activeOperationsCount = Cardinality(ActiveTimers)
          /\ userActiveOperations = Cardinality(ActiveTimers)

C20_Witness ==
    /\ timers[1].pc = "stopped"
    /\ timers[2].pc = "running"
    /\ mu = 0
    /\ activeOperationsCount = 1
    /\ userActiveOperations = 1

----------------------------------------------------------------------------
(* Shutdown of the aggregator, read from hist and rets *)

OpenAtEnd(k) == Positions(k) # {} /\ ~HasMarker(hist[Max(Positions(k))])

----------------------------------------------------------------------------
(* Concurrent producers, compared with the calls made one after another *)

(* the buffer and the results after the calls ran one at a time, in the    *)
(* order given by order[1], ..., order[n]                                  *)
RECURSIVE OneByOne(_, _)
OneByOne(order, n) ==
    IF n = 0 THEN [buffer |-> EmptyTable, rets |-> {}]
    ELSE LET before == OneByOne(order, n - 1)
             r == combine_logs(before.buffer, "app", order[n], hist[order[n]])
         IN [buffer |-> r.buffer, rets |-> before.rets \cup {r.ret}]

AllCalled == \A p \in Producers : producers[p].pc \in {"returned", "error"}

(* C12: when the producers' calls interleave, the outcome is that of the   *)
(* same calls made one after another in some order: no call fails, no      *)
(* message is lost and no Group is created twice.                          *)
C12_Linearizable ==
    AllCalled =>
        \E order \in Permutations(1..Len(hist)) :
            /\ buffer = OneByOne(order, Len(hist)).buffer
            /\ {rets[i] : i \in 1..Len(rets)} = OneByOne(order, Len(hist)).rets
            /\ Len(rets) = Len(hist)

----------------------------------------------------------------------------
(* The store, the outputs and the stream, key by key *)

(* C22: a key is in the store exactly when a record for it has arrived     *)
(* since its last flush (its latest record is not terminal); one call      *)
(* moves the key of its record ABSENT -> OPEN or OPEN -> OPEN on a         *)
(* non-terminal record and to ABSENT on a terminal one, and the store      *)
(* holds no entry under any other key.                                     *)
C22_StateMachine ==
    /\ DOMAIN buffer \subseteq BufferedKeys
    /\ \A k \in BufferedKeys : k \in DOMAIN buffer <=> OpenAtEnd(k)

C22_Witness ==
    /\ Len(hist) = 3
    /\ \A i \in 1..3 : TraceIdOf(hist[i]) = KeyAbc
    /\ ~HasMarker(hist[1]) /\ ~HasMarker(hist[2]) /\ HasMarker(hist[3])
    /\ KeyAbc \notin DOMAIN buffer

(* the terminal records of a key whose previous record closed a Group *)
Retransmitted ==
    {i \in Flushes :
        LET k == TraceIdOf(hist[i]) IN
        Before(k, i) # {} /\ HasMarker(hist[Max(Before(k, i))])}

(* C23: a terminal record for a key whose Group was already flushed is     *)
(* emitted at once as a Group of its own: the call returns 1 with a        *)
(* record whose message is that record's message alone and whose fields    *)
(* are that record's own, and the key is not in the store afterwards.      *)
C23_RetransmittedTerminal ==
    \A i \in Retransmitted :
        /\ rets[i][1] = 1
        /\ TraceIdOf(rets[i][3]) = TraceIdOf(hist[i])
        /\ TextOf(rets[i][3]) = TextOf(hist[i])
        /\ \A f \in AuxFields :
              f \in DOMAIN rets[i][3] =>
                  f \in DOMAIN hist[i] /\ rets[i][3][f] = hist[i][f]
        /\ i = Len(hist) => TraceIdOf(hist[i]) \notin DOMAIN buffer

C23_Witness ==
    /\ Len(hist) = 3
    /\ 3 \in Retransmitted
    /\ TraceIdOf(hist[1]) = TraceIdOf(hist[3])
    /\ ~HasMarker(hist[1])
    /\ "status" \in DOMAIN hist[1]
    /\ rets[3][1] = 1
    /\ "status" \notin DOMAIN rets[3][3]

HeldRecords ==
    {i \in 1..Len(hist) :
        TraceIdOf(hist[i]) \in BufferedKeys /\ ~HasMarker(hist[i])}

(* C24: a keyed record without the terminal marker returns -1; every call  *)
(* returns -1 or 1, and a call that returns 1 either passes a record       *)
(* without traceId through unchanged or answers a terminal keyed record    *)
(* with the combined record of its key.                                    *)
C24_HeldNotEmitted ==
    /\ \A i \in HeldRecords : rets[i][1] = -1
    /\ \A i \in 1..Len(rets) :
          /\ rets[i][1] \in {-1, 1}
          /\ rets[i][1] = 1 =>
                \/ /\ TraceIdOf(hist[i]) \notin BufferedKeys
                   /\ rets[i][3] = hist[i]
                \/ /\ i \in Flushes
                   /\ TraceIdOf(rets[i][3]) = TraceIdOf(hist[i])
                   /\ HasMarker(rets[i][3])

C24_Witness ==
    /\ Len(hist) = 3
    /\ 1 \in HeldRecords /\ rets[1][1] = -1
    /\ 2 \in Flushes /\ rets[2][1] = 1
    /\ TraceIdOf(hist[3]) \notin BufferedKeys /\ rets[3][1] = 1

(* the fields of the records of the Group closed at i, the key and the     *)
(* message apart                                                           *)
CarriedFields(i) ==
    UNION {DOMAIN hist[j] : j \in Span(TraceIdOf(hist[i]), i)}
        \ {"traceId", "message"}

(* C25: every field carried by a record of a Group, whatever its name, is  *)
(* in the combined record with the value of the latest record of the       *)
(* Group that carries it.                                                  *)
C25_AnyFieldMerged ==
    \A i \in Flushes : \A f \in CarriedFields(i) :
        LET carriers == {j \in Span(TraceIdOf(hist[i]), i) : f \in DOMAIN hist[j]}
        IN  /\ f \in DOMAIN rets[i][3]
            /\ rets[i][3][f] = hist[Max(carriers)][f]

(* the number of messages joined in a combined record *)
Lines(r) == 1 + Cardinality({i \in 1..Len(TextOf(r)) : TextOf(r)[i] = "\n"})

RECURSIVE EmittedMessages(_, _)
EmittedMessages(k, n) ==
    IF n = 0 THEN 0
    ELSE EmittedMessages(k, n - 1)
         + (IF rets[n][1] = 1 /\ TraceIdOf(rets[n][3]) = k
            THEN Lines(rets[n][3]) ELSE 0)

LiveMessages(k) == IF k \in DOMAIN buffer THEN Len(buffer[k].messages) ELSE 0

(* C26: for every key, the messages of its live Group and the messages of  *)
(* the combined records emitted for it are together as many as the keyed   *)
(* records received for it.                                                *)
C26_MessageConservation ==
    \A k \in BufferedKeys :
        LiveMessages(k) + EmittedMessages(k, Len(rets)) = Cardinality(Positions(k))

C26_Witness ==
    /\ Len(hist) = 3
    /\ LiveMessages(KeyAbc) = 1
    /\ EmittedMessages(KeyAbc, 3) = 2

(* C27: a call changes no store entry but the one of its record's key, and *)
(* every live Group has the traceId it is stored under and at least one    *)
(* message.                                                                *)
C27_Frame ==
    /\ [](\A k \in DOMAIN buffer :
            buffer[k].traceId = k /\ Len(buffer[k].messages) >= 1)
    /\ [][Len(hist') = Len(hist) + 1 =>
            \A o \in (DOMAIN buffer \cup DOMAIN buffer')
                        \ {TraceIdOf(hist'[Len(hist')])} :
                /\ o \in DOMAIN buffer /\ o \in DOMAIN buffer'
                /\ buffer'[o] = buffer[o]]_vars

C27_Witness ==
    /\ Len(hist) = 3
    /\ TraceIdOf(hist[1]) = KeyXyz /\ ~HasMarker(hist[1])
    /\ TraceIdOf(hist[2]) = KeyAbc /\ ~HasMarker(hist[2])
    /\ TraceIdOf(hist[3]) = KeyAbc /\ HasMarker(hist[3])
    /\ DOMAIN buffer = {KeyXyz}
    /\ Len(buffer[KeyXyz].messages) = 1

----------------------------------------------------------------------------
(* The log file, request by request *)

(* request r is at `from` before the step and at `to`, or gone, after it *)
Moves(r, from, to) ==
    /\ r \in DOMAIN inflight
    /\ inflight[r].pc = from
    /\ r \in DOMAIN inflight' => inflight'[r].pc = to

(* the step appends exactly one entry to the log file *)
WritesEntry == Len(logFile') = Len(logFile) + 1 /\ SubSeq(logFile', 1, Len(logFile)) = logFile

WrittenEntry == logFile'[Len(logFile')]

EntriesUpTo(n, t, terminal) ==
    Cardinality({i \in 1..n : TraceIdOf(logFile[i]) = t
                              /\ HasMarker(logFile[i]) = terminal})

AtHandler == {r \in DOMAIN inflight : inflight[r].pc = "handler"}

AtServed == {r \in DOMAIN inflight : inflight[r].pc = "served"}

(* C28: a request enters at the handler, its handler writes one entry and  *)
(* returns, and only then, and once, Trace writes "request completed" for  *)
(* it: every entry written is the handler's entry of one request leaving   *)
(* the handler or the terminal entry of one request whose handler has      *)
(* returned.  In the file, up to any line and for any trace ID, there are  *)
(* never more terminal entries than handler entries, and there are as many *)
(* terminal entries as requests that left Trace.                           *)
C28_TerminalAfterHandler ==
    /\ [](/\ \A n \in 0..Len(logFile) : \A i \in 1..Len(logFile) :
                EntriesUpTo(n, TraceIdOf(logFile[i]), TRUE)
                    <= EntriesUpTo(n, TraceIdOf(logFile[i]), FALSE)
          /\ Cardinality({i \in 1..Len(logFile) : HasMarker(logFile[i])})
                = arrived - Cardinality(AtHandler) - Cardinality(AtServed)
          /\ Cardinality({i \in 1..Len(logFile) : ~HasMarker(logFile[i])})
                = arrived - Cardinality(AtHandler))
    /\ [][/\ logFile' # logFile => WritesEntry
          /\ (WritesEntry /\ HasMarker(WrittenEntry)) =>
                \E r \in DOMAIN inflight :
                    /\ Moves(r, "served", "done")
                    /\ TraceIdOf(WrittenEntry) = Marshal(inflight[r].traceID)
                    /\ \A o \in DOMAIN inflight \ {r} :
                          o \in DOMAIN inflight' /\ inflight'[o] = inflight[o]
          /\ (WritesEntry /\ ~HasMarker(WrittenEntry)) =>
                \E r \in DOMAIN inflight :
                    /\ Moves(r, "handler", "served")
                    /\ r \in DOMAIN inflight'
                    /\ TraceIdOf(WrittenEntry) = Marshal(inflight[r].traceID)
                    /\ \A o \in DOMAIN inflight \ {r} :
                          o \in DOMAIN inflight' /\ inflight'[o] = inflight[o]
          /\ \A r \in DOMAIN inflight :
                (r \notin DOMAIN inflight' \/ inflight'[r].pc # inflight[r].pc) =>
                    /\ inflight[r].pc # "done"
                    /\ WritesEntry
                    /\ HasMarker(WrittenEntry) <=> inflight[r].pc = "served"
          /\ \A r \in DOMAIN inflight' \ DOMAIN inflight :
                inflight'[r].pc = "handler"]_vars

C28_Witness ==
    /\ Len(logFile) = 4
    /\ \A i \in 1..4 : TraceIdOf(logFile[i]) = Str(<<"test-trace-123">>)
    /\ ~HasMarker(logFile[1]) /\ ~HasMarker(logFile[2])
    /\ HasMarker(logFile[3]) /\ HasMarker(logFile[4])
    /\ TextOf(logFile[1]) # TextOf(logFile[2])

----------------------------------------------------------------------------
(* The Stats that GetStats returns, against the requests recorded *)

RECURSIVE TotalLatency(_)
TotalLatency(S) ==
    IF S = {} THEN 0
    ELSE LET r == CHOOSE x \in S : TRUE
         IN  recording[r].latency + TotalLatency(S \ {r})

StartedRecording == {r \in Recorded : recording[r].pc # "idle"}

(* the Stats are those of the requests in S *)
StatsOf(stats, S) ==
    /\ stats.RequestCount = Cardinality(S)
    /\ stats.ErrorCount = Cardinality({r \in S : recording[r].Status >= 400})
    /\ stats.AvgLatencyMs =
          IF S = {} THEN 0 ELSE TotalLatency(S) \div Cardinality(S)

(* C30: the Stats that GetStats returns have ErrorCount <= RequestCount    *)
(* and are the counts and the average latency of one set of requests.      *)
C30_ConsistentStats ==
    getStats.pc = "returned" =>
        LET stats == getStats.ret[1] IN
        /\ stats.ErrorCount <= stats.RequestCount
        /\ \E S \in SUBSET StartedRecording : StatsOf(stats, S)

----------------------------------------------------------------------------
(* Pool.Run: who handled which job *)

HandledBy(job) == {n \in 1..Len(run.handled) : run.handled[n].job = job}

(* C29: no job is handled twice and every handled job is one of 1..Total   *)
(* with a trace ID no other job has; when Run has returned, every worker   *)
(* it started has exited, and with at least one worker every job was       *)
(* handled exactly once; Run, once called, returns.                        *)
C29_PoolRun ==
    /\ [](/\ \A n \in 1..Len(run.handled) :
                /\ run.handled[n].job \in 1..run.Total
                /\ HandledBy(run.handled[n].job) = {n}
                /\ \A m \in 1..Len(run.handled) :
                      run.handled[m].traceID = run.handled[n].traceID => m = n
          /\ run.pc = "returned" =>
                /\ Len(run.workers) = run.Concurrency
                /\ \A w \in DOMAIN run.workers : run.workers[w].pc = "exited"
                /\ run.Concurrency >= 1 =>
                      \A job \in 1..run.Total : Cardinality(HandledBy(job)) = 1)
    /\ [](run.pc # "idle" => <>(run.pc = "returned"))

C29_Witness ==
    /\ run.pc = "returned"
    /\ run.Total = 2 /\ run.Concurrency = 2
    /\ Len(run.handled) = 2
    /\ run.handled[1].job = 2 /\ run.handled[1].worker = 0
    /\ run.handled[2].job = 1 /\ run.handled[2].worker = 1

C29_WitnessNoWorker ==
    run.pc = "returned" /\ run.Total = 2 /\ run.Concurrency = 0

----------------------------------------------------------------------------
(* MongoDBMetricsCollector: Stop after Start *)

(* C21: Stop, once it has closed stopCh, returns; when it has returned,    *)
(* collectLoop has exited, and no collection runs from then on.            *)
C21_StopReturns ==
    /\ [](mongo.stop = "wg.Wait" => <>(mongo.stop = "returned"))
    /\ [](mongo.stop = "returned" => mongo.loop = "exited" /\ mongo.wg = 0)
    /\ [][mongo.stop = "returned" => mongo'.collections = mongo.collections]_vars

C21_Witness ==
    /\ mongo.stop = "returned"
    /\ mongo.loop = "exited"
    /\ mongo.collections >= 2
    /\ mongo.tick

====
